---- MODULE Spec2Model ----
(***************************************************************************)
(* A state-machine model of src/decode.c, the decode side of NvPipe: one   *)
(* decoder instance (struct nvp_decoder), its public entry points and the  *)
(* three parser callbacks.  The hardware engine (cuvid, the CUDA runtime   *)
(* and the nv12->RGB unit) is the environment: every call into it either   *)
(* succeeds or fails, and a parse fires each callback at most once, the    *)
(* sequence callback before the decode callback.  The display callback     *)
(* (dec_display) and the surface slot it records (idx) are left out: the   *)
(* slot only names which surface the map step asks for.  Left out as well: *)
(* nvp_cuvid_destroy (the instance modelled is a live one), the impl.type  *)
(* check of decode (the instance is a decoder) and its assert(ibuf) and    *)
(* assert(obuf) (callers pass buffers).                                    *)
(***************************************************************************)
EXTENDS Integers, FiniteSets, Sequences, TLC

\* ------------------------------------------------------------------ bounds
\* Most invocations of nvp_cuvid_decode (the public one and its recursive
\* resubmissions) followed within one public call.
MaxAttempts == 3
\* Most hardware operations that fail of themselves over the instance's life.
MaxFaults == 2

\* ------------------------------------------------------- program constants
\* a macroblock is 16x16 pixels (dec_ode: PicWidthInMbs*16).
MbSize == 16
\* bytes per RGB pixel (dec_initialize: dstwidth*dstheight*3).
RgbBytes == 3

VARIABLES
  nvp,     \* struct nvp_decoder: the instance's fields
  pc,      \* where control is: "idle" (no call in progress), "parse" (inside
           \* cuvidParseVideoData), "done" (the call has returned its status
           \* to the caller), "aborted" (a failed assert() ended the process)
  cb,      \* in "parse": the first callback the parser may still fire
           \* (0 sequence, 1 decode, 2 none)
  call,    \* the arguments of the entry-point call in progress
  pre,     \* the instance as it was when that call was made
  ret,     \* the status the call returned ("none": it has not returned)
  g        \* what the call has done so far (history of hardware operations)

vars == <<nvp, pc, cb, call, pre, ret, g>>

\* ---------------------------------------------------------------- domains
\* picture widths and heights, in macroblocks, that the packets report.
Mbs == {1, 2}
\* requested output sizes: 0 and an odd height are the invalid ones.
Widths == {0} \cup {m * MbSize : m \in Mbs}
Heights == {0, MbSize - 1} \cup {m * MbSize : m \in Mbs}
\* compressed-input lengths handed to decode: no bytes, or one packet.
InputSizes == {0, 1}
\* display_area.bottom may fall short of the coded height (1080 in 1088).
Crops == {0, MbSize \div 2}

\* The decode calls a caller makes: pictures and requested sizes are square,
\* and a call that the argument checks reject carries the smallest packet
\* in host memory (what the packet holds and where it lies matter only to a
\* call that gets past those checks).  ibuf_dev is what is_device_ptr(ibuf)
\* answers; mbw and mbh are the coded size, in macroblocks, of the stream
\* the packet belongs to.
Requests ==
  {c \in [fn : {"decode"}, ibuf_sz : InputSizes, ibuf_dev : BOOLEAN,
          width : Widths, height : Heights, mbw : Mbs, mbh : Mbs] :
     /\ c.mbw = c.mbh
     /\ \/ c.ibuf_sz # 0 /\ c.width = c.height /\ c.width # 0
        \/ /\ c.mbw = 1 /\ ~c.ibuf_dev
           /\ (c.ibuf_sz = 0 \/ c.width = 0 \/ c.height \notin Widths)}

\* What a call into dec_initialize meets: every hardware call succeeds, or
\* the first one that fails.
InitOutcomes == {"ok", "create_fail", "free_fail", "malloc_fail"}
\* What the entry part of decode meets, likewise.
EnterOutcomes == {"ok", "parser_fail", "realloc_fail", "memcpy_fail"}
\* What the map .. unmap tail of decode meets: the first step that fails.
ExtractOutcomes ==
  {"ok", "map_fail", "event_fail", "wait_fail", "submit_fail", "copy_fail", "sync_fail"}

\* nvp_err_t values the code names, and the raw codes of the driver API
\* (CUresult) and of the runtime API (cudaError_t) it returns unconverted.
NvpStatuses == {"NVPIPE_SUCCESS", "NVPIPE_EINVAL", "NVPIPE_ENOMEM", "NVPIPE_EDECODE"}
RawStatuses == {"CUresult", "cudaError_t"}

\* --------------------------------------------------------- initial values
\* calloc(1, sizeof(struct nvp_decoder)): every field zero; reorg and ready
\* are created by nvp_create_decoder and never change afterwards.
nvp_create_decoder ==
  [initialized |-> FALSE, decoder |-> FALSE, parser |-> FALSE, hbuf_sz |-> 0,
   wi |-> 0, hi |-> 0, wdst |-> 0, hdst |-> 0, wsrc |-> 0, hsrc |-> 0,
   rgb |-> 0, empty |-> FALSE]

\* The history of a call that has done nothing yet.
\*   touched: a hardware operation was invoked; fail: one of them failed;
\*   faults: how many have failed of themselves (not for want of a handle)
\*   since the instance was created: the one entry kept from call to call;
\*   attempts: invocations of nvp_cuvid_decode; parses, creates, destroys,
\*   frees, allocs, maps, unmaps: calls of cuvidParseVideoData,
\*   cuvidCreateDecoder, cuvidDestroyDecoder, cudaFree, cudaMalloc,
\*   cuvidMapVideoFrame, cuvidUnmapVideoFrame; mapsOk: maps that succeeded;
\*   emptyResub, mismatchResub: recursive calls of lines 440 and 453;
\*   noPic: parses that succeeded and fired no decode callback;
\*   odeFired: the current parse fired the decode callback; odeOk: a decode
\*   callback succeeded; srcMoved: one changed (wsrc,hsrc) after a resize;
\*   failedAssert: the last assert() on the decoder handle (of
\*   dec_initialize or before the map) whose condition was false, in
\*   whatever build; rgbUsed: reorganize was given nvp->rgb to convert into;
\*   cropped: dec_sequence initialized the instance from a display area
\*   shorter than the coded picture (fmt->coded_height != h).
NoHistory ==
  [touched |-> FALSE, fail |-> FALSE, faults |-> 0, attempts |-> 0,
   parses |-> 0, creates |-> 0, destroys |-> 0, frees |-> 0,
   allocs |-> 0, maps |-> 0, mapsOk |-> 0, unmaps |-> 0, emptyResub |-> 0,
   mismatchResub |-> 0, noPic |-> 0, odeFired |-> FALSE, odeOk |-> FALSE,
   srcMoved |-> FALSE, failedAssert |-> "none", rgbUsed |-> FALSE,
   cropped |-> FALSE]

NoCall ==
  [fn |-> "none", ibuf_sz |-> 0, ibuf_dev |-> FALSE, width |-> 0, height |-> 0,
   mbw |-> 1, mbh |-> 1]

\* A machine state threaded through the helpers: the instance, the history,
\* whether a failed assert() ended the process, and the helper's result.
Thread(n, h) == [nvp |-> n, g |-> h, abort |-> FALSE, res |-> TRUE]

\* A hardware operation is invoked; it fails of itself.
Op(h) == [h EXCEPT !.touched = TRUE]
Fault(h) == [h EXCEPT !.touched = TRUE, !.fail = TRUE, !.faults = @ + 1]

\* assert(cond): a build with NDEBUG compiles it out; any other build ends
\* the process when cond is false.  Both builds exist, so a false cond may
\* go either way: `die` is the build's answer.  A process that has died
\* stays dead ("aborted" has no successor), so every state short of
\* "aborted" is one the NDEBUG build reaches.
Asserted(cond, die) == cond \/ ~die

\* The history notes an assert() on the decoder handle whose condition is
\* false.
Trip(st, cond, name) ==
  IF cond THEN st ELSE [st EXCEPT !.g.failedAssert = name]

\* ----------------------------------------------------------- dec_initialize
\* const size_t nb_rgb = dstwidth*dstheight*3;
nb_rgb_OneByte(dstwidth, dstheight) == dstwidth * dstheight
nb_rgb(dstwidth, dstheight) == dstwidth * dstheight * RgbBytes

\* if(dstwidth != nvp->d.wdst || dstheight != nvp->d.hdst)
RgbStale_Always(n, dstwidth, dstheight) == TRUE
RgbStale(n, dstwidth, dstheight) == dstwidth # n.wdst \/ dstheight # n.hdst

dec_initialize(st0, iwidth, iheight, dstwidth, dstheight, out, die) ==
  LET st == Trip(st0, ~st0.nvp.decoder, "decoder == NULL") IN
  IF ~Asserted(iwidth > 0 /\ iheight > 0 /\ dstwidth > 0 /\ dstheight > 0
               /\ ~st.nvp.decoder, die)
  THEN [st EXCEPT !.abort = TRUE, !.res = FALSE]
  ELSE
    LET n1 == [st.nvp EXCEPT !.wi = iwidth, !.hi = iheight]
        g1 == [Op(st.g) EXCEPT !.creates = @ + 1]
    IN
    IF out = "create_fail"
    THEN [st EXCEPT !.nvp = n1, !.g = Fault(g1), !.res = FALSE]
    ELSE
      LET n2 == [n1 EXCEPT !.decoder = TRUE] IN
      IF RgbStale(n2, dstwidth, dstheight)
      THEN
        IF n2.rgb # 0 /\ out = "free_fail"
        THEN [st EXCEPT !.nvp = n2,
                        !.g = Fault([g1 EXCEPT !.frees = @ + 1]),
                        !.res = FALSE]
        ELSE
          LET g2 == IF n2.rgb # 0 THEN [g1 EXCEPT !.frees = @ + 1] ELSE g1
              g3 == [g2 EXCEPT !.allocs = @ + 1]
              n3 == [n2 EXCEPT !.rgb = 0]
          IN
          IF out = "malloc_fail"
          THEN [st EXCEPT !.nvp = n3, !.g = Fault(g3), !.res = FALSE]
          ELSE [st EXCEPT
                  !.nvp = [n3 EXCEPT !.rgb = nb_rgb(dstwidth, dstheight),
                                     !.wdst = dstwidth, !.hdst = dstheight,
                                     !.initialized = TRUE],
                  !.g = g3, !.res = TRUE]
      ELSE [st EXCEPT !.nvp = [n2 EXCEPT !.initialized = TRUE], !.g = g1,
                      !.res = TRUE]

\* ------------------------------------------------------------------ resize
\* if(nvp->decoder && cuvidDestroyDecoder(nvp->decoder) != CUDA_SUCCESS)
\* nvp->decoder = NULL;
resize_destroy_Skipped(st, destroyOk) == st
resize_destroy(st, destroyOk) ==
  IF st.nvp.decoder
  THEN [st EXCEPT !.nvp.decoder = FALSE,
                  !.g = [(IF destroyOk THEN Op(@) ELSE Fault(@))
                           EXCEPT !.destroys = @ + 1]]
  ELSE st

\* dec_initialize's result is dropped.
resize(st, width, height, dstwidth, dstheight, destroyOk, out, die) ==
  dec_initialize(resize_destroy(st, destroyOk), width, height,
                 dstwidth, dstheight, out, die)

\* ------------------------------------------------------------- callbacks
\* fmt: [bitdepth, supported, w, h, coded_height]; supported stands for the
\* three asserted fields (chroma 4:2:0, H264, progressive); w and h are the
\* display area's width and height.
dec_sequence(st, fmt, out, die) ==
  IF fmt.bitdepth # 0 THEN [st EXCEPT !.res = FALSE]
  ELSE IF ~Asserted(fmt.supported, die) THEN [st EXCEPT !.abort = TRUE, !.res = FALSE]
  ELSE IF ~st.nvp.initialized
       THEN dec_initialize([st EXCEPT !.g.cropped = fmt.coded_height # fmt.h],
                           fmt.w, fmt.h, fmt.w, fmt.h, out, die)
       ELSE [st EXCEPT !.res = TRUE]

\* pic->PicWidthInMbs*16, pic->FrameHeightInMbs*16
SourceDim_Unscaled(mbs) == mbs
SourceDim(mbs) == mbs * MbSize

\* cuvidDecodePicture needs a decode resource: with a NULL handle it fails.
dec_ode(st, PicWidthInMbs, FrameHeightInMbs, decodeOk) ==
  LET g1 == [Op(st.g) EXCEPT !.odeFired = TRUE] IN
  IF ~st.nvp.decoder
  THEN [st EXCEPT !.g = [g1 EXCEPT !.fail = TRUE], !.res = FALSE]
  ELSE IF ~decodeOk
  THEN [st EXCEPT !.g = Fault(g1), !.res = FALSE]
  ELSE [st EXCEPT
          !.nvp = [@ EXCEPT !.wsrc = SourceDim(PicWidthInMbs),
                            !.hsrc = SourceDim(FrameHeightInMbs)],
          !.g = [g1 EXCEPT !.odeOk = TRUE,
                           !.srcMoved = @ \/
                              (st.g.mismatchResub > 0 /\
                               (st.nvp.wsrc # SourceDim(PicWidthInMbs) \/
                                st.nvp.hsrc # SourceDim(FrameHeightInMbs)))],
          !.res = TRUE]

\* ---------------------------------------------------- decode: entry part
\* if(ibuf_sz == 0) ..; if(width == 0 || height == 0 || (height&0x1) == 1) ..
ValidArgs_OddHeight(ibuf_sz, width, height) ==
  ibuf_sz # 0 /\ width # 0 /\ height # 0
ValidArgs(ibuf_sz, width, height) ==
  ibuf_sz # 0 /\ ~(width = 0 \/ height = 0 \/ height % 2 = 1)

\* res: the status initialize_parser returns.
initialize_parser(st, out) ==
  IF out # "parser_fail"
  THEN [st EXCEPT !.nvp.parser = TRUE, !.g = Op(@), !.res = "NVPIPE_SUCCESS"]
  ELSE [st EXCEPT !.g = Fault(@), !.res = "NVPIPE_EDECODE"]

\* res: FALSE when source_data returns NULL.
source_data(st, ibuf_dev, ibuf_sz, out) ==
  IF ~ibuf_dev THEN [st EXCEPT !.res = TRUE]
  ELSE
    LET grow == ibuf_sz > st.nvp.hbuf_sz IN
    IF grow /\ out = "realloc_fail"
    THEN [st EXCEPT !.g = Fault(@), !.res = FALSE]
    ELSE
      LET n1 == IF grow THEN [st.nvp EXCEPT !.hbuf_sz = ibuf_sz] ELSE st.nvp IN
      IF out = "memcpy_fail"
      THEN [st EXCEPT !.nvp = n1, !.g = Fault(@), !.res = FALSE]
      ELSE [st EXCEPT !.nvp = n1, !.g = Op(@), !.res = TRUE]

\* Lines 388-418 of nvp_cuvid_decode, up to the parse: the status returned
\* there, or "parse" when the packet goes to the parser.
Enter(st, c, out) ==
  LET s0 == [st EXCEPT !.g = [@ EXCEPT !.attempts = @ + 1, !.odeFired = FALSE]] IN
  IF ~ValidArgs(c.ibuf_sz, c.width, c.height)
  THEN [s0 EXCEPT !.res = "NVPIPE_EINVAL"]
  ELSE
    LET p == IF ~s0.nvp.parser THEN initialize_parser(s0, out)
             ELSE [s0 EXCEPT !.res = "NVPIPE_SUCCESS"]
    IN
    IF p.res # "NVPIPE_SUCCESS" THEN p
    ELSE LET s == source_data(p, c.ibuf_dev, c.ibuf_sz, out)
         IN IF ~s.res THEN [s EXCEPT !.res = "NVPIPE_ENOMEM"]
            ELSE [s EXCEPT !.res = "parse"]

\* ----------------------------------------------- decode: after the parse
\* if(CUDA_SUCCESS != parse) return NVPIPE_EDECODE;  res: "ok" otherwise.
Parsed(st, parseOk) ==
  IF parseOk
  THEN [st EXCEPT !.g = [Op(@) EXCEPT !.parses = @ + 1,
                                      !.noPic = IF st.g.odeFired THEN @ ELSE @ + 1],
                  !.res = "ok"]
  ELSE [st EXCEPT !.g = [Fault(@) EXCEPT !.parses = @ + 1],
                  !.res = "NVPIPE_EDECODE"]

\* if(nvp->d.wsrc == 0 || nvp->d.hsrc == 0)
NoPicture_Always(n) == TRUE
NoPicture(n) == n.wsrc = 0 \/ n.hsrc = 0

\* if(nvp->empty)
EmptyGuard_Off(n) == FALSE
EmptyGuard_Inverted(n) == ~n.empty
EmptyGuard(n) == n.empty

\* if(nvp->d.wsrc != nvp->d.wi || nvp->d.hsrc != nvp->d.hi ||
\*    nvp->d.wdst != width || nvp->d.hdst != height)
DimsMismatch_SrcOnly(n, width, height) == n.wsrc # n.wi \/ n.hsrc # n.hi
DimsMismatch_Always(n, width, height) == TRUE
DimsMismatch(n, width, height) ==
  n.wsrc # n.wi \/ n.hsrc # n.hi \/ n.wdst # width \/ n.hdst # height

\* Lines 431-454: res is the status returned, "recurse" or "extract".
Reconciliation(st, c, destroyOk, out, die) ==
  IF NoPicture(st.nvp)
  THEN IF EmptyGuard(st.nvp)
       THEN [st EXCEPT !.res = "NVPIPE_EINVAL"]
       ELSE [st EXCEPT !.nvp.empty = TRUE,
                       !.g = [@ EXCEPT !.emptyResub = @ + 1],
                       !.res = "recurse"]
  ELSE
    LET s1 == [st EXCEPT !.nvp.empty = FALSE] IN
    IF DimsMismatch(s1.nvp, c.width, c.height)
    THEN LET r == resize(s1, s1.nvp.wsrc, s1.nvp.hsrc, c.width, c.height,
                         destroyOk, out, die)
         IN IF r.abort THEN r
            ELSE [r EXCEPT !.g = [@ EXCEPT !.mismatchResub = @ + 1],
                           !.res = "recurse"]
    ELSE [s1 EXCEPT !.res = "extract"]

\* reorganize: the status it returns.  A device-resident obuf is converted
\* into directly; otherwise the result is copied out of nvp->rgb.
reorganize(obuf_dev, outcome) ==
  IF outcome = "submit_fail" THEN "cudaError_t"
  ELSE IF ~obuf_dev /\ outcome = "copy_fail" THEN "cudaError_t"
  ELSE IF outcome = "sync_fail" THEN "cudaError_t"
  ELSE "NVPIPE_SUCCESS"

\* Lines 456-497: map, order the streams, convert, unmap.
\* cuvidMapVideoFrame needs a decode resource: with a NULL handle it fails.
Extraction(st0, obuf_dev, outcome, unmapOk, die) ==
  LET st == Trip(st0, st0.nvp.decoder, "decoder") IN
  IF ~Asserted(st.nvp.decoder, die)
  THEN [st EXCEPT !.abort = TRUE]
  ELSE
    LET g1 == [Op(st.g) EXCEPT !.maps = @ + 1] IN
    IF ~st.nvp.decoder
    THEN [st EXCEPT !.g = [g1 EXCEPT !.fail = TRUE], !.res = "CUresult"]
    ELSE IF outcome = "map_fail"
    THEN [st EXCEPT !.g = Fault(g1), !.res = "CUresult"]
    ELSE
      LET g2 == [g1 EXCEPT !.mapsOk = @ + 1] IN
      IF outcome \in {"event_fail", "wait_fail"}
      THEN [st EXCEPT !.g = Fault(g2), !.res = "cudaError_t"]
      ELSE
        LET orgerr == reorganize(obuf_dev, outcome)
            g3 == IF orgerr # "NVPIPE_SUCCESS" THEN Fault(g2) ELSE g2
            g4 == IF unmapOk THEN g3 ELSE Fault(g3)
        IN [st EXCEPT !.g = [g4 EXCEPT !.unmaps = @ + 1,
                                       !.rgbUsed = ~obuf_dev],
                      !.res = orgerr]

\* The decoder can't encode: assert(false), then return NVPIPE_EINVAL.
nvp_cuvid_encode_Succeeds == "NVPIPE_SUCCESS"
nvp_cuvid_encode == "NVPIPE_EINVAL"

nvp_cuvid_bitrate == "NVPIPE_EINVAL"

\* ------------------------------------------------------------------ Init
Init ==
  /\ nvp = nvp_create_decoder
  /\ pc = "idle"
  /\ cb = 0
  /\ call = NoCall
  /\ pre = nvp_create_decoder
  /\ ret = "none"
  /\ g = NoHistory

\* --------------------------------------------------------------- actions
\* The history a new call starts with.
Fresh == [NoHistory EXCEPT !.faults = g.faults]

\* Where a thread leaves the machine: in the parser, returned, or dead.
Land(s) ==
  /\ s.g.faults <= MaxFaults
  /\ nvp' = s.nvp
  /\ g' = s.g
  /\ cb' = 0
  /\ IF s.abort THEN pc' = "aborted" /\ ret' = "none"
     ELSE IF s.res = "parse" THEN pc' = "parse" /\ ret' = "none"
     ELSE pc' = "done" /\ ret' = s.res

\* Every way an invocation can run from its entry to the parse, and from
\* the parse's return on, over the hardware's answers.
Entered(st, c) ==
  {Enter(st, c, out) : out \in EnterOutcomes}

Reconciled(st, c) ==
  {Reconciliation(st, c, destroyOk, out, die) :
     destroyOk \in BOOLEAN, out \in InitOutcomes, die \in BOOLEAN}

Extracted(st) ==
  {Extraction(st, obuf_dev, outcome, unmapOk, die) :
     obuf_dev \in BOOLEAN, outcome \in ExtractOutcomes, unmapOk \in BOOLEAN,
     die \in BOOLEAN}

\* The caller calls decode: the invocation runs to the parse, or returns.
Decode ==
  /\ pc = "idle"
  /\ \E c \in Requests :
       /\ call' = c
       /\ pre' = nvp
       /\ \E e \in Entered(Thread(nvp, Fresh), c) : Land(e)

\* A callback returns into the parser, or its assert() ends the process.
Callback(s, next) ==
  /\ s.g.faults <= MaxFaults
  /\ nvp' = s.nvp
  /\ g' = s.g
  /\ IF s.abort THEN pc' = "aborted" /\ cb' = 0 ELSE pc' = "parse" /\ cb' = next
  /\ UNCHANGED <<call, pre, ret>>

\* The formats the parser may report for the packet of the call in
\* progress: bit_depth_luma_minus8 is 0 or 2, the asserted fields are the
\* supported ones or not, the display area is the coded picture or cropped.
Formats ==
  {[bitdepth |-> bitdepth, supported |-> supported,
    w |-> call.mbw * MbSize, h |-> call.mbh * MbSize - crop,
    coded_height |-> call.mbh * MbSize] :
     bitdepth \in {0, 2}, supported \in BOOLEAN, crop \in Crops}

\* those of the handled bit depth whose chroma layout, coding standard or
\* scan type is not the supported one.
UnsupportedFormats == {fmt \in Formats : fmt.bitdepth = 0 /\ ~fmt.supported}

\* The parser fires the sequence callback with one of the formats fmts.
SequenceFired(fmts) ==
  /\ pc = "parse" /\ cb = 0
  /\ \E s \in {dec_sequence(Thread(nvp, g), fmt, out, die) :
                  fmt \in fmts, out \in InitOutcomes, die \in BOOLEAN} :
       Callback(s, 1)

\* The parser fires the sequence callback for the packet's format.
ParserSequence == SequenceFired(Formats)

\* The parser fires the decode callback for the packet's picture.
ParserDecode ==
  /\ pc = "parse" /\ cb <= 1
  /\ \E decodeOk \in BOOLEAN :
       Callback(dec_ode(Thread(nvp, g), call.mbw, call.mbh, decodeOk), 2)

\* cuvidParseVideoData returns and the invocation runs on: to its return,
\* or through a recursive call to that invocation's parse.
ParseReturn ==
  /\ pc = "parse"
  /\ UNCHANGED <<call, pre>>
  /\ \E parseOk \in BOOLEAN :
       LET p == Parsed(Thread(nvp, g), parseOk) IN
       IF p.res # "ok" THEN Land(p)
       ELSE \E r \in Reconciled(p, call) :
         IF r.abort THEN Land(r)
         ELSE IF r.res = "recurse"
         THEN /\ r.g.attempts < MaxAttempts
              /\ \E e \in Entered(r, call) : Land(e)
         ELSE IF r.res = "extract"
         THEN \E x \in Extracted(r) : Land(x)
         ELSE Land(r)

\* assert(false); return NVPIPE_EINVAL;
Rejected(fn, status) ==
  /\ pc = "idle"
  /\ call' = [NoCall EXCEPT !.fn = fn]
  /\ pre' = nvp
  /\ g' = Fresh
  /\ \E die \in BOOLEAN :
       IF Asserted(FALSE, die) THEN pc' = "done" /\ ret' = status
       ELSE pc' = "aborted" /\ ret' = "none"
  /\ UNCHANGED <<nvp, cb>>

\* The caller calls the encode entry point of the decoder.
Encode == Rejected("encode", nvp_cuvid_encode)

\* The caller calls the bitrate entry point of the decoder.
Bitrate == Rejected("bitrate", nvp_cuvid_bitrate)

\* The caller has the status; the call's frame is gone.
Return ==
  /\ pc = "done"
  /\ pc' = "idle"
  /\ call' = NoCall
  /\ pre' = nvp_create_decoder
  /\ ret' = "none"
  /\ g' = Fresh
  /\ UNCHANGED <<nvp, cb>>

Next ==
  \/ Decode
  \/ ParserSequence
  \/ ParserDecode
  \/ ParseReturn
  \/ Encode
  \/ Bitrate
  \/ Return

Spec == Init /\ [][Next]_vars

\* ============================================================ properties
\* The public decode call in progress, or just returned.
InDecode == call.fn = "decode"
DecodeReturned == pc = "done" /\ InDecode

\* The instance the call found was reconciled for its stream and sized for
\* output (wdst,hdst): a picture has been decoded, the decode resource is
\* live and was made for the source size, and the conversion buffer holds
\* wdst*hdst*3 bytes.
PreReconciled ==
  /\ pre.wsrc # 0 /\ pre.hsrc # 0
  /\ pre.wi = pre.wsrc /\ pre.hi = pre.hsrc
  /\ pre.wdst # 0 /\ pre.hdst # 0
  /\ pre.decoder
  /\ pre.rgb = nb_rgb(pre.wdst, pre.hdst)

\* The call's packet is of the stream the instance was reconciled for / the
\* call asks for the output size the instance is sized for.
SameSource == call.mbw * MbSize = pre.wsrc /\ call.mbh * MbSize = pre.hsrc
SameRequest == call.width = pre.wdst /\ call.height = pre.hdst

\* ------------------------------------------------------------------- C1
\* C1: whenever a public decode call returns success, (wi,hi) == (wsrc,hsrc)
\* and (wdst,hdst) == the (width,height) that call requested, whatever calls
\* came before it.
C1_SuccessIsReconciled ==
  (DecodeReturned /\ ret = "NVPIPE_SUCCESS") =>
    /\ nvp.wi = nvp.wsrc /\ nvp.hi = nvp.hsrc
    /\ nvp.wdst = call.width /\ nvp.hdst = call.height

\* a call that succeeds on an instance sized for another output, after a
\* reinitialization.
C1_Witness ==
  /\ DecodeReturned /\ ret = "NVPIPE_SUCCESS"
  /\ pre.wdst # 0 /\ pre.wdst # call.width
  /\ pre.wsrc # 0 /\ pre.wsrc # nvp.wsrc
  /\ g.mismatchResub = 1

\* ------------------------------------------------------------------- C2
\* C2: every public decode call resubmits at most once because the parse
\* produced no picture and at most once because of a dimension mismatch,
\* provided the resubmitted packet reports the same source size, for every
\* outcome of the hardware operations.
C2_BoundedResubmissions ==
  ~g.srcMoved => g.emptyResub <= 1 /\ g.mismatchResub <= 1

\* ------------------------------------------------------------------- C3
\* C3: on an instance that has never decoded a picture, a decode call whose
\* packet fires no decode callback on the submission and none on the
\* resubmission has returned invalid-argument after exactly two parses and
\* has mapped no surface.
C3_MetadataTwiceIsInvalid ==
  (InDecode /\ pre.wsrc = 0 /\ pre.hsrc = 0
   /\ g.noPic >= 2 /\ g.noPic = g.parses) =>
    /\ pc = "done" /\ ret = "NVPIPE_EINVAL"
    /\ g.parses = 2 /\ g.attempts = 2 /\ g.maps = 0

C3_Witness ==
  /\ DecodeReturned /\ pre.wsrc = 0 /\ g.noPic = 2
  /\ ret = "NVPIPE_EINVAL" /\ g.emptyResub = 1

\* ------------------------------------------------------------------- C4
\* C4: a decode call with input length 0, width 0, height 0 or an odd height
\* returns invalid-argument, has invoked no hardware operation and leaves
\* every field of the instance as it found it.
C4_InvalidArgsRejected ==
  (InDecode /\ (call.ibuf_sz = 0 \/ call.width = 0 \/ call.height = 0
                \/ call.height % 2 = 1)) =>
    /\ pc = "done" /\ ret = "NVPIPE_EINVAL"
    /\ nvp = pre
    /\ ~g.touched /\ g.parses = 0 /\ g.creates = 0 /\ g.destroys = 0
    /\ g.maps = 0

\* an odd height asked of an instance that has decoded before.
C4_Witness ==
  /\ DecodeReturned /\ call.height % 2 = 1 /\ call.ibuf_sz # 0
  /\ pre.decoder /\ pre.wsrc # 0 /\ ret = "NVPIPE_EINVAL"

\* ------------------------------------------------------------------- C5
\* C5: from a reconciled instance sized for (w1,h1), a decode call that asks
\* for another output size (w2,h2) while the source size is unchanged, all
\* hardware operations succeeding, returns success after exactly one destroy
\* and one create of the decode resource and one free and one allocation of
\* the conversion buffer, which then holds w2*h2*3 bytes, with
\* (wdst,hdst) == (w2,h2).
C5_OutputResizeOnce ==
  (DecodeReturned /\ PreReconciled /\ SameSource /\ ~SameRequest
   /\ ValidArgs(call.ibuf_sz, call.width, call.height) /\ ~g.fail) =>
    /\ ret = "NVPIPE_SUCCESS"
    /\ g.destroys = 1 /\ g.creates = 1 /\ g.frees = 1 /\ g.allocs = 1
    /\ nvp.rgb = call.width * call.height * RgbBytes
    /\ nvp.wdst = call.width /\ nvp.hdst = call.height

C5_Witness ==
  /\ DecodeReturned /\ PreReconciled /\ SameSource /\ ~SameRequest /\ ~g.fail
  /\ ret = "NVPIPE_SUCCESS" /\ g.allocs = 1 /\ nvp.rgb # pre.rgb

\* ------------------------------------------------------------------- C6
\* C6: from a reconciled instance, a decode call whose packet reports a new
\* source size while the requested size equals (wdst,hdst), all hardware
\* operations succeeding, destroys and creates the decode resource exactly
\* once, ends with (wi,hi) the new source size, and neither frees nor
\* allocates the conversion buffer nor changes (wdst,hdst).
C6_SourceResizeOnce ==
  (DecodeReturned /\ PreReconciled /\ ~SameSource /\ g.odeOk /\ SameRequest
   /\ ~g.fail) =>
    /\ g.destroys = 1 /\ g.creates = 1
    /\ nvp.wi = call.mbw * MbSize /\ nvp.hi = call.mbh * MbSize
    /\ g.frees = 0 /\ g.allocs = 0 /\ nvp.rgb = pre.rgb
    /\ nvp.wdst = pre.wdst /\ nvp.hdst = pre.hdst

C6_Witness ==
  /\ DecodeReturned /\ PreReconciled /\ ~SameSource /\ g.odeOk /\ SameRequest
  /\ ~g.fail /\ ret = "NVPIPE_SUCCESS" /\ nvp.wi # pre.wi /\ g.creates = 1

\* ------------------------------------------------------------------- C7
\* C7: once the dimensions are reconciled, a decode call with the same
\* requested size and the same source size creates no decode resource,
\* destroys none and allocates no conversion buffer, and leaves the four
\* sizes as they were (so the next such call finds the same); a call whose
\* packet has reported that source size has parsed exactly once when it
\* returns, and no such call parses twice.
C7_StableCallsRecreateNothing ==
  (InDecode /\ PreReconciled /\ SameSource /\ SameRequest) =>
    /\ g.creates = 0 /\ g.destroys = 0 /\ g.allocs = 0 /\ g.frees = 0
    /\ nvp.wi = pre.wi /\ nvp.hi = pre.hi
    /\ nvp.wsrc = pre.wsrc /\ nvp.hsrc = pre.hsrc
    /\ nvp.wdst = pre.wdst /\ nvp.hdst = pre.hdst
    /\ nvp.decoder /\ nvp.rgb = pre.rgb
    /\ g.parses <= 1 /\ g.attempts = 1
    /\ (pc = "done" /\ g.odeOk => g.parses = 1)

C7_Witness ==
  /\ DecodeReturned /\ PreReconciled /\ SameSource /\ SameRequest
  /\ g.odeOk /\ g.parses = 1 /\ ret = "NVPIPE_SUCCESS"

\* ------------------------------------------------------------------- C8
\* C8: every surface a decode call mapped successfully has been unmapped
\* when the call returns, whatever the steps after the map met.
C8_NoSurfaceLeftMapped ==
  DecodeReturned => g.unmaps = g.mapsOk

\* ------------------------------------------------------------------- C9
\* C9: the status decode returns is one of success, invalid-argument,
\* out-of-memory and decode-error, and a call that got to mapping a surface
\* and did not succeed returns decode-error.
C9_StatusIsOneOfFour ==
  DecodeReturned =>
    /\ ret \in NvpStatuses
    /\ (g.maps > 0 /\ ret # "NVPIPE_SUCCESS" => ret = "NVPIPE_EDECODE")

\* ------------------------------------------------------------------ C10
\* C10, as stated: a call of the encode or the bitrate entry point returns
\* invalid-argument, changes no field and invokes no hardware operation.
C10_AlwaysReturnsInvalid ==
  call.fn \in {"encode", "bitrate"} =>
    /\ pc = "done" /\ ret = "NVPIPE_EINVAL"
    /\ nvp = pre /\ ~g.touched

\* C10, as the code has it: a call of the encode or the bitrate entry point
\* changes no field and invokes no hardware operation; it returns
\* invalid-argument in a build that compiles assert() out, and in any other
\* build its assert(false) ends the process before it returns.
C10_RejectedOrAborted ==
  call.fn \in {"encode", "bitrate"} =>
    /\ \/ pc = "done" /\ ret = "NVPIPE_EINVAL"
       \/ pc = "aborted" /\ ret = "none"
    /\ nvp = pre /\ ~g.touched

\* encode called on an instance that is decoding a stream.
C10_Witness ==
  /\ call.fn = "encode" /\ pc = "done" /\ ret = "NVPIPE_EINVAL"
  /\ pre.decoder /\ pre.wsrc # 0

\* The instance the call found was a fresh one: nothing but
\* nvp_create_decoder has touched it.
PreFresh == pre = nvp_create_decoder

\* ------------------------------------------------------------------ C11
\* C11: on a fresh instance, one public decode call whose requested size
\* differs from the size discovered from the stream, all hardware operations
\* succeeding, reinitializes exactly once (one destroy, then one create
\* besides the sequence callback's, and one free and reallocation of the
\* conversion buffer), resubmits and returns success with (wdst,hdst) the
\* requested size.
C11_FirstCallResizesOnce ==
  (DecodeReturned /\ PreFresh /\ call.width # call.mbw * MbSize /\ g.odeOk
   /\ ~g.fail) =>
    /\ ret = "NVPIPE_SUCCESS"
    /\ g.mismatchResub = 1 /\ g.destroys = 1 /\ g.creates = 2
    /\ g.frees = 1 /\ g.allocs = 2
    /\ nvp.wdst = call.width /\ nvp.hdst = call.height
    /\ nvp.rgb = call.width * call.height * RgbBytes

C11_Witness ==
  /\ DecodeReturned /\ PreFresh /\ call.width # call.mbw * MbSize /\ g.odeOk
  /\ ~g.fail /\ ret = "NVPIPE_SUCCESS" /\ g.mismatchResub = 1
  /\ nvp.wdst = call.width

\* ------------------------------------------------------------------ C12
\* C12: on a fresh instance, one public decode call on a stream whose display
\* size, macroblock-rounded source size and requested size are all equal,
\* all hardware operations succeeding, creates the decode resource exactly
\* once, never destroys it and returns success.
C12_FirstCallCreatesOnce ==
  (DecodeReturned /\ PreFresh /\ ~g.cropped /\ g.odeOk /\ ~g.fail
   /\ call.width = call.mbw * MbSize /\ call.height = call.mbh * MbSize) =>
    /\ ret = "NVPIPE_SUCCESS"
    /\ g.creates = 1 /\ g.destroys = 0 /\ g.allocs = 1 /\ g.frees = 0
    /\ g.mismatchResub = 0

C12_Witness ==
  /\ DecodeReturned /\ PreFresh /\ ~g.cropped /\ g.odeOk /\ ~g.fail
  /\ call.width = call.mbw * MbSize /\ call.height = call.mbh * MbSize
  /\ ret = "NVPIPE_SUCCESS" /\ g.creates = 1 /\ g.maps = 1

\* ------------------------------------------------------------------ C13
\* C13: a decode attempt whose parse fired no decode callback does not map a
\* surface, on a fresh instance and on one that has decoded pictures alike:
\* a call that has returned after mapping had the decode callback fire in
\* the parse of its last attempt.
C13_NoCallbackNoMap ==
  (DecodeReturned /\ g.parses > 0 /\ ~g.odeFired) => g.maps = 0

\* ------------------------------------------------------------------ C14
\* C14: a decode call does not resubmit its packet after a reinitialization
\* whose decode-resource creation failed: a call that has resubmitted after
\* a dimension mismatch holds a decode resource.
C14_FailedCreateStopsTheCall ==
  (InDecode /\ g.mismatchResub > 0) => nvp.decoder

\* ------------------------------------------------------------------ C15
\* C15: decode returns out-of-memory for device-resident input whose staging
\* buffer had to grow and could not; a failed device-to-host transfer
\* returns a status other than out-of-memory.
C15_OutOfMemoryMeansGrowthFailed ==
  (DecodeReturned /\ ret = "NVPIPE_ENOMEM") =>
    /\ call.ibuf_dev
    /\ call.ibuf_sz > pre.hbuf_sz
    /\ nvp.hbuf_sz = pre.hbuf_sz

\* ------------------------------------------------------------------ C16
\* C16: whenever a decode call has converted into the internal conversion
\* buffer, that buffer is allocated and holds exactly
\* requested_width*requested_height*3 == wdst*hdst*3 bytes.
C16_ConversionBufferSized ==
  (DecodeReturned /\ g.rgbUsed) =>
    /\ nvp.rgb # 0
    /\ nvp.rgb = call.width * call.height * RgbBytes
    /\ nvp.rgb = nvp.wdst * nvp.hdst * RgbBytes

\* ------------------------------------------------------------------ C17
\* C17: a sequence callback that receives a format whose chroma layout,
\* coding standard or scan type is not the supported one returns into the
\* parser without ending the process, having created no decode resource and
\* changed no field of the instance.
C17_UnsupportedFormatIsNoOp ==
  [][SequenceFired(UnsupportedFormats) =>
       (pc' = "parse" /\ nvp' = nvp /\ g'.creates = g.creates)]_vars

\* ------------------------------------------------------------------ C18
\* C18: the assertion at the entry of dec_initialize that the decode-resource
\* handle is NULL is never evaluated with a live handle.
C18_HandleNullAtInitialize == g.failedAssert # "decoder == NULL"

\* ------------------------------------------------------------------ C19
\* C19: the assertion before the map step that the decode-resource handle is
\* non-NULL is never evaluated with a NULL handle.
C19_HandleLiveAtMap == g.failedAssert # "decoder"

\* ------------------------------------------------------------------ C20
\* C20, as stated: in every reachable state the empty-submission flag being
\* set implies wsrc == 0 or hsrc == 0.
C20_EmptyImpliesNoSource ==
  nvp.empty => (nvp.wsrc = 0 \/ nvp.hsrc = 0)

\* C20, as the code has it: once wsrc and hsrc are nonzero they stay nonzero,
\* the flag is never set and the no-picture resubmission never made again;
\* a flag left set from before the first picture is clear once a call has
\* got past the no-picture branch (to a reinitialization or to the map).
C20_NoPictureBranchOnlyBeforeFirstPicture ==
  /\ []((InDecode /\ (g.mismatchResub > 0 \/ g.maps > 0)) => ~nvp.empty)
  /\ [][(nvp.wsrc # 0 /\ nvp.hsrc # 0) =>
          /\ nvp'.wsrc # 0 /\ nvp'.hsrc # 0
          /\ (nvp'.empty => nvp.empty)
          /\ g'.emptyResub <= g.emptyResub]_vars

\* a packet whose parse fires no decode callback, on an instance that has
\* decoded a picture: the call returns with the flag clear, not resubmitted.
C20_Witness ==
  /\ DecodeReturned /\ pre.wsrc # 0 /\ pre.hsrc # 0
  /\ g.noPic >= 1 /\ g.emptyResub = 0 /\ ~nvp.empty /\ g.maps > 0

\* ------------------------------------------------------------------ C21
\* C21: a decode call that returns invalid-argument for a metadata-only
\* packet (after a parse) leaves the empty-submission flag set; and a decode
\* call that finds the flag set on an instance that has decoded no picture,
\* and whose packet again fires no decode callback, has returned
\* invalid-argument after a single parse, without a resubmission.
C21_FlagOutlivesTheCall ==
  /\ (DecodeReturned /\ ret = "NVPIPE_EINVAL" /\ g.parses > 0) => nvp.empty
  /\ (InDecode /\ pre.empty /\ pre.wsrc = 0 /\ pre.hsrc = 0
      /\ g.noPic >= 1 /\ g.noPic = g.parses) =>
       /\ pc = "done" /\ ret = "NVPIPE_EINVAL"
       /\ g.parses = 1 /\ g.attempts = 1 /\ g.emptyResub = 0
       /\ g.maps = 0 /\ nvp.empty

\* the second metadata-only call in a row: one parse, invalid-argument.  No
\* hardware operation has ever failed, so the flag it found set was left by
\* a call that returned invalid-argument.
C21_Witness ==
  /\ DecodeReturned /\ pre.empty /\ pre.wsrc = 0 /\ pre.parser
  /\ g.faults = 0
  /\ g.noPic = 1 /\ g.parses = 1 /\ g.attempts = 1
  /\ ret = "NVPIPE_EINVAL" /\ nvp.empty

====
